---- MODULE Spec2Model ----
(***************************************************************************)
(* Divergence-free RBF interpolation (Lgm_DFI_RBF.c): the kernel           *)
(* Lgm_DFI_RBF_Phi, the construction Lgm_DFI_RBF_Init, the evaluation      *)
(* Lgm_DFI_RBF_Eval and the destruction Lgm_DFI_RBF_Free.                  *)
(*                                                                         *)
(* Numbers.  Coordinates and field components are integers.  The shape    *)
(* parameter is carried in halves: a model value e stands for eps = e/2,   *)
(* so that 4*eps = 2*e and 4*eps*eps = e*e are integers.  A double that    *)
(* the code computes is modelled as the exact real                         *)
(*        SUM_k  r[k] * exp(-k/2)       (r[k] a non-zero integer)          *)
(* held as the function r from its exponents k to its coefficients.  The   *)
(* numbers exp(-k/2) are linearly independent over the integers, so two    *)
(* such reals are equal exactly when the functions are equal.  Rounding is *)
(* not modelled.                                                           *)
(***************************************************************************)
EXTENDS Integers, Sequences, FiniteSets, TLC

\* Largest number of samples handed to Lgm_DFI_RBF_Init.
MaxN == 2
\* Largest absolute coordinate of the points handed to Lgm_DFI_RBF_Phi alone.
MaxCoord == 1
\* Largest number of pitch angles (m->nAlpha) of an ephemeris file.
MaxAlpha == 2

VARIABLES
    v,        \* caller's array of positions, 0..n-1
    B,        \* caller's array of field vectors, 0..n-1
    n,        \* caller's sample count
    eps,      \* caller's shape parameter (in halves)
    pc,       \* "start", "ready" (Init returned), "freed"; "crashed_alloc",
              \* "crashed_solve", "crashed_eval" (the process died there);
              \* "kernel", "kernel_done" (a caller of the kernel alone)
    live,     \* heap blocks currently allocated
    rbf,      \* the Lgm_DFI_RBF_Info structure
    d,        \* right-hand side as Init filled it
    a,        \* matrix as Init's loop filled it
    status,   \* value returned by gsl_linalg_cholesky_decomp
    ret,      \* value returned by Lgm_DFI_RBF_Init
    q,        \* query point of the last Lgm_DFI_RBF_Eval
    Bout,     \* output vector of the last Lgm_DFI_RBF_Eval
    lastEval, \* how the last Eval's call of the kernel behaved
    phiV,     \* arguments and output matrix of a direct kernel call
    phiV0,
    phiEps,
    phiOut,
    given,    \* the arrays v and B as they were when Init was called
    asmPhi,   \* the one 3x3 scratch of the assembly loop (line 285)
    asmA,     \* the matrix while the loop's iterations run one beside the other
    asmTask,  \* per pair (i,j): "todo", "called" (kernel called), "done" (copied)
    asmRaced, \* a kernel call came between another iteration's call and copy
    asmCalls, \* per pair (i,j): the kernel calls of line 323 made for it
    asmWrites, \* per entry of a: the stores of line 327 made to it
    ephM,      \* MagEphemWrite.c: what the writers read of their arguments
    ephHeader, \* the variables the JSON header declares, with their columns
    ephLabels, \* the labels of the column header line
    ephRow     \* the fields of the data row

asmVars == <<asmPhi, asmA, asmTask, asmRaced, asmCalls, asmWrites>>

ephVars == <<ephM, ephHeader, ephLabels, ephRow>>

vars == <<v, B, n, eps, pc, live, rbf, d, a, status, ret, q, Bout, lastEval,
          phiV, phiV0, phiEps, phiOut, given, asmVars, ephVars>>

----------------------------------------------------------------------------
(* Exact reals  SUM_k r[k]*exp(-k/2).                                       *)

Zero == [k \in {} |-> 0]

\* c * exp(-k/2)
Term(c, k) == IF c = 0 THEN Zero ELSE [j \in {k} |-> c]

Coef(r, k) == IF k \in DOMAIN r THEN r[k] ELSE 0

Add(r, s) ==
    LET K == {k \in (DOMAIN r) \cup (DOMAIN s) : Coef(r, k) + Coef(s, k) # 0}
    IN  [k \in K |-> Coef(r, k) + Coef(s, k)]

\* integer times real
Scale(c, r) == IF c = 0 THEN Zero ELSE [k \in DOMAIN r |-> c * r[k]]

Vec(px, py, pz) == [x |-> px, y |-> py, z |-> pz]

ZeroVec == Vec(Zero, Zero, Zero)

----------------------------------------------------------------------------
(* Lgm_DFI_RBF_Phi: the 3x3 matrix-valued kernel at the displacement       *)
(* pv - pv0.  The result is the matrix the routine writes through Phi,     *)
(* rows and columns 0..2.                                                  *)

\* exp( -eps*r2 ), with eps = peps/2
Exp(peps, r2) == Term(1, peps * r2)

\* Lgm_DFI_RBF_Phi with the (1,1) entry built from x2 + y2, the (2,2) line
\* copied.
PhiDiagCopied(pv, pv0, peps) ==
    LET x   == pv.x - pv0.x
        y   == pv.y - pv0.y
        z   == pv.z - pv0.z
        x2  == x*x
        y2  == y*y
        z2  == z*z
        r2  == x2 + y2 + z2
        xy  == x*y
        yz  == y*z
        xz  == x*z
        f   == 2 * peps
        g   == (f * peps) \div 2
        psi == Exp(peps, r2)
        P00 == Scale(f - g*(y2 + z2), psi)
        P01 == Scale(g*xy, psi)
        P02 == Scale(g*xz, psi)
        P11 == Scale(f - g*(x2 + y2), psi)
        P12 == Scale(g*yz, psi)
        P22 == Scale(f - g*(x2 + y2), psi)
    IN  [i \in 0..2 |-> [j \in 0..2 |->
            CASE i = 0 /\ j = 0 -> P00
              [] i = 0 /\ j = 1 -> P01
              [] i = 0 /\ j = 2 -> P02
              [] i = 1 /\ j = 0 -> P01
              [] i = 1 /\ j = 1 -> P11
              [] i = 1 /\ j = 2 -> P12
              [] i = 2 /\ j = 0 -> P02
              [] i = 2 /\ j = 1 -> P12
              [] OTHER          -> P22]]

\* Lgm_DFI_RBF_Phi with the lower triangle recomputed from the displacement
\* instead of copied, and the sign of x lost in the (2,0) entry.
PhiLowerRecomputed(pv, pv0, peps) ==
    LET x   == pv.x - pv0.x
        y   == pv.y - pv0.y
        z   == pv.z - pv0.z
        x2  == x*x
        y2  == y*y
        z2  == z*z
        r2  == x2 + y2 + z2
        xy  == x*y
        yz  == y*z
        xz  == x*z
        f   == 2 * peps
        g   == (f * peps) \div 2
        psi == Exp(peps, r2)
        P00 == Scale(f - g*(y2 + z2), psi)
        P01 == Scale(g*xy, psi)
        P02 == Scale(g*xz, psi)
        P11 == Scale(f - g*(x2 + z2), psi)
        P12 == Scale(g*yz, psi)
        P20 == Scale(g*x2*z, psi)
        P22 == Scale(f - g*(x2 + y2), psi)
    IN  [i \in 0..2 |-> [j \in 0..2 |->
            CASE i = 0 /\ j = 0 -> P00
              [] i = 0 /\ j = 1 -> P01
              [] i = 0 /\ j = 2 -> P02
              [] i = 1 /\ j = 0 -> P01
              [] i = 1 /\ j = 1 -> P11
              [] i = 1 /\ j = 2 -> P12
              [] i = 2 /\ j = 0 -> P20
              [] i = 2 /\ j = 1 -> P12
              [] OTHER          -> P22]]

\* Lgm_DFI_RBF_Phi with the coordinates of the target taken for the
\* displacement (x = v->x, y = v->y, z = v->z).
PhiOfTarget(pv, pv0, peps) ==
    LET x   == pv.x
        y   == pv.y
        z   == pv.z
        x2  == x*x
        y2  == y*y
        z2  == z*z
        r2  == x2 + y2 + z2
        xy  == x*y
        yz  == y*z
        xz  == x*z
        f   == 2 * peps
        g   == (f * peps) \div 2
        psi == Exp(peps, r2)
        P00 == Scale(f - g*(y2 + z2), psi)
        P01 == Scale(g*xy, psi)
        P02 == Scale(g*xz, psi)
        P11 == Scale(f - g*(x2 + z2), psi)
        P12 == Scale(g*yz, psi)
        P22 == Scale(f - g*(x2 + y2), psi)
    IN  [i \in 0..2 |-> [j \in 0..2 |->
            CASE i = 0 /\ j = 0 -> P00
              [] i = 0 /\ j = 1 -> P01
              [] i = 0 /\ j = 2 -> P02
              [] i = 1 /\ j = 0 -> P01
              [] i = 1 /\ j = 1 -> P11
              [] i = 1 /\ j = 2 -> P12
              [] i = 2 /\ j = 0 -> P02
              [] i = 2 /\ j = 1 -> P12
              [] OTHER          -> P22]]

Lgm_DFI_RBF_Phi(pv, pv0, peps) ==
    LET x   == pv.x - pv0.x
        y   == pv.y - pv0.y
        z   == pv.z - pv0.z
        x2  == x*x
        y2  == y*y
        z2  == z*z
        r2  == x2 + y2 + z2
        xy  == x*y
        yz  == y*z
        xz  == x*z
        f   == 2 * peps              \* 4.0*eps
        g   == (f * peps) \div 2     \* f*eps
        psi == Exp(peps, r2)
        P00 == Scale(f - g*(y2 + z2), psi)
        P01 == Scale(g*xy, psi)
        P02 == Scale(g*xz, psi)
        P11 == Scale(f - g*(x2 + z2), psi)
        P12 == Scale(g*yz, psi)
        P22 == Scale(f - g*(x2 + y2), psi)
    IN  [i \in 0..2 |-> [j \in 0..2 |->
            CASE i = 0 /\ j = 0 -> P00
              [] i = 0 /\ j = 1 -> P01
              [] i = 0 /\ j = 2 -> P02
              [] i = 1 /\ j = 0 -> P01     \* Phi[1][0] = Phi[0][1]
              [] i = 1 /\ j = 1 -> P11
              [] i = 1 /\ j = 2 -> P12
              [] i = 2 /\ j = 0 -> P02     \* Phi[2][0] = Phi[0][2]
              [] i = 2 /\ j = 1 -> P12     \* Phi[2][1] = Phi[1][2]
              [] OTHER          -> P22]]

ZeroMat == [i \in 0..2 |-> [j \in 0..2 |-> Zero]]

----------------------------------------------------------------------------
(* Inputs.                                                                 *)

\* Sample positions and query points.
Points == {Vec(0, 0, 0), Vec(1, 0, 0), Vec(0, 1, 0), Vec(0, 0, 1)}

Queries == Points \cup {Vec(1, 1, 1), Vec(2, 0, 0)}

\* Field arrays of k samples: every sample (5,0,0), or the vectors
\* (1,0,0), (0,1,0), (0,0,1), (1,1,1), ... by index.
FieldByIndex(i) ==
    CASE i = 0 -> Vec(1, 0, 0)
      [] i = 1 -> Vec(0, 1, 0)
      [] i = 2 -> Vec(0, 0, 1)
      [] OTHER -> Vec(1, 1, 1)

Fields(k) == {[i \in 0..k-1 |-> Vec(5, 0, 0)], [i \in 0..k-1 |-> FieldByIndex(i)]}

\* Shape parameters in halves: eps = 0, 0.5, 1.0
EpsValues == {0, 1, 2}

\* Arguments of a direct kernel call.
KernelPoints ==
    {Vec(px, py, pz) : px \in -MaxCoord..MaxCoord, py \in -MaxCoord..MaxCoord,
                       pz \in -MaxCoord..MaxCoord}

KernelEps == {-1, 0, 1, 2}

Inputs ==
    UNION {{[n |-> k, v |-> pv, B |-> pB, eps |-> e] :
                pv \in [0..k-1 -> Points], pB \in Fields(k), e \in EpsValues} :
           k \in 0..MaxN}

----------------------------------------------------------------------------
(* Heap blocks of Lgm_DFI_RBF_Init.                                        *)

Scratch == {"d", "a", "Phi"}

Persistent == {"rbf", "rbf.c", "rbf.v"}

NoRbf == [eps |-> 0, n |-> 0, n3 |-> 0, c |-> <<>>, v |-> <<>>]

----------------------------------------------------------------------------
(* Lgm_DFI_RBF_Init.                                                       *)

\* FillD with the y and z components written in each other's slots.
FillDSwapped(pB, pn) ==
    [ii \in 0..3*pn-1 |->
        CASE ii % 3 = 0 -> pB[ii \div 3].x
          [] ii % 3 = 1 -> pB[ii \div 3].z
          [] OTHER      -> pB[ii \div 3].y]

\* for ( ii=0, i=0; i<n; i++ ) { d[ii++] = B[i].x; d[ii++] = B[i].y; ... }
FillD(pB, pn) ==
    [ii \in 0..3*pn-1 |->
        CASE ii % 3 = 0 -> pB[ii \div 3].x
          [] ii % 3 = 1 -> pB[ii \div 3].y
          [] OTHER      -> pB[ii \div 3].z]

\* FillA with the start column taken from the row index (jj = 3*i): every
\* iteration of row i writes block (i,i), the last one wins, and the
\* blocks off the diagonal keep the zeros of their allocation.
FillAColumnFromRow(pv, pn, peps) ==
    [r \in 0..3*pn-1 |-> [s \in 0..3*pn-1 |->
        IF r \div 3 = s \div 3
            THEN Lgm_DFI_RBF_Phi(pv[r \div 3], pv[pn-1], peps)[r % 3][s % 3]
            ELSE Zero]]

\* FillA over the pairs with j >= i only: the blocks below the diagonal
\* keep the zeros of their allocation.
FillAUpperOnly(pv, pn, peps) ==
    [r \in 0..3*pn-1 |-> [s \in 0..3*pn-1 |->
        IF s \div 3 >= r \div 3
            THEN Lgm_DFI_RBF_Phi(pv[r \div 3], pv[s \div 3], peps)[r % 3][s % 3]
            ELSE Zero]]

\* FillA with the kernel called on v[i] and the sample after v[j].
FillANextSample(pv, pn, peps) ==
    [r \in 0..3*pn-1 |-> [s \in 0..3*pn-1 |->
        Lgm_DFI_RBF_Phi(pv[r \div 3], pv[((s \div 3) + 1) % pn], peps)[r % 3][s % 3]]]

\* a[3i+p][3j+q] = Phi( v[i], v[j] )[p][q]  for i, j in 0..n-1, p, q in 0..2
FillA(pv, pn, peps) ==
    [r \in 0..3*pn-1 |-> [s \in 0..3*pn-1 |->
        Lgm_DFI_RBF_Phi(pv[r \div 3], pv[s \div 3], peps)[r % 3][s % 3]]]

\* SaveInfo without the copy loop of line 297: the positions of the
\* structure stay as allocated.
SaveInfoNoCopy(pv, pn, peps, pc0) ==
    [eps |-> peps, n |-> pn, n3 |-> 3*pn, c |-> pc0,
     v |-> [i \in 0..pn-1 |-> Vec(0, 0, 0)]]

\* The structure as lines 291-297 fill it; c is allocated, not yet written.
SaveInfo(pv, pn, peps, pc0) ==
    [eps |-> peps, n |-> pn, n3 |-> 3*pn, c |-> pc0,
     v |-> [i \in 0..pn-1 |-> pv[i]]]

\* gsl_matrix_view_array( a, n3, n3 ) is handed the table of row pointers
\* (a is double **), not the n3*n3 doubles the loop filled: the matrix that
\* gsl_linalg_cholesky_decomp factorizes and gsl_linalg_cholesky_solve uses
\* is indeterminate.  Whatever the status, the solve then writes some vector
\* into rbf->c.
SolveOutcomes(n3) ==
    {[status |-> st, c |-> g] :
        st \in {"GSL_SUCCESS", "GSL_EDOM"},
        g \in {[k \in 0..n3-1 |-> 1], [k \in 0..n3-1 |-> k - 1]}}

\* calloc at line 291 returns NULL; rbf->eps = eps at line 292 dereferences it.
InitAllocFails ==
    /\ pc = "start"
    /\ pc' = "crashed_alloc"
    /\ live' = Scratch
    /\ given' = [v |-> v, B |-> B]
    /\ UNCHANGED <<v, B, n, eps, rbf, d, a, status, ret, q, Bout, lastEval,
                   phiV, phiV0, phiEps, phiOut, asmVars, ephVars>>

\* The factorization runs in place over the row-pointer table and the heap
\* behind it; the process dies in the solver or in LGM_ARRAY_2D_FREE( a ).
InitSolverCrash ==
    /\ pc = "start"
    /\ \E out \in SolveOutcomes(3*n) :
          /\ rbf' = SaveInfo(v, n, eps, out.c)
          /\ status' = out.status
    /\ d' = FillD(B, n)
    /\ a' = FillA(v, n, eps)
    /\ live' = Scratch \cup Persistent
    /\ pc' = "crashed_solve"
    /\ given' = [v |-> v, B |-> B]
    /\ UNCHANGED <<v, B, n, eps, ret, q, Bout, lastEval,
                   phiV, phiV0, phiEps, phiOut, asmVars, ephVars>>

\* InitReturns with the solve done in place on the caller's field vectors.
InitReturnsInPlace ==
    /\ pc = "start"
    /\ \E out \in SolveOutcomes(3*n) :
          /\ rbf' = SaveInfo(v, n, eps, out.c)
          /\ status' = out.status
          /\ B' = [i \in 0..n-1 |-> Vec(out.c[3*i], out.c[3*i+1], out.c[3*i+2])]
    /\ d' = FillD(B, n)
    /\ a' = FillA(v, n, eps)
    /\ live' = (Scratch \cup Persistent) \ Scratch
    /\ ret' = "rbf"
    /\ pc' = "ready"
    /\ given' = [v |-> v, B |-> B]
    /\ UNCHANGED <<v, n, eps, q, Bout, lastEval,
                   phiV, phiV0, phiEps, phiOut, asmVars, ephVars>>

\* The run to return( rbf ) at line 363.
InitReturns ==
    /\ pc = "start"
    /\ \E out \in SolveOutcomes(3*n) :
          /\ rbf' = SaveInfo(v, n, eps, out.c)
          /\ status' = out.status
    /\ d' = FillD(B, n)
    /\ a' = FillA(v, n, eps)
    /\ live' = (Scratch \cup Persistent) \ Scratch
    /\ ret' = "rbf"
    /\ pc' = "ready"
    /\ given' = [v |-> v, B |-> B]
    /\ UNCHANGED <<v, B, n, eps, q, Bout, lastEval,
                   phiV, phiV0, phiEps, phiOut, asmVars, ephVars>>

Lgm_DFI_RBF_Init == InitAllocFails \/ InitSolverCrash \/ InitReturns

----------------------------------------------------------------------------
(* Lgm_DFI_RBF_Free.                                                       *)

\* FreeBlocks without gsl_vector_free( rbf->c ).
FreeBlocksKeepWeights(heap) == heap \ {"rbf.v"}

\* LGM_ARRAY_1D_FREE( rbf->v ); gsl_vector_free( rbf->c );
FreeBlocks(heap) == (heap \ {"rbf.v"}) \ {"rbf.c"}

Lgm_DFI_RBF_Free ==
    /\ pc = "ready"
    /\ live' = FreeBlocks(live)
    /\ pc' = "freed"
    /\ UNCHANGED <<v, B, n, eps, rbf, d, a, status, ret, q, Bout, lastEval,
                   phiV, phiV0, phiEps, phiOut, given, asmVars, ephVars>>

----------------------------------------------------------------------------
(* Lgm_DFI_RBF_Eval.                                                       *)

\* 3x3 matrix times 3-vector; the vector's components are integers.
Lgm_MatTimesVec(M, V) ==
    Vec(Add(Add(Scale(V.x, M[0][0]), Scale(V.y, M[0][1])), Scale(V.z, M[0][2])),
        Add(Add(Scale(V.x, M[1][0]), Scale(V.y, M[1][1])), Scale(V.z, M[1][2])),
        Add(Add(Scale(V.x, M[2][0]), Scale(V.y, M[2][1])), Scale(V.z, M[2][2])))

VecAdd(U, W) == Vec(Add(U.x, W.x), Add(U.y, W.y), Add(U.z, W.z))

\* Contents of Eval's local  double Phi[3][3]  when nothing was stored in it.
Indeterminate == [i \in 0..2 |-> [j \in 0..2 |-> Term(1, 0)]]

\* Eval passes its local double Phi[3][3] where Lgm_DFI_RBF_Phi takes a
\* double **: the routine reads its row pointers out of the uninitialized
\* array.  Either its nine stores reach the array all the same ("stored",
\* what the call is written for), or they go elsewhere and the array keeps
\* what it held ("indeterminate"), or a store faults ("trap").
EvalModes == {"stored", "indeterminate", "trap"}

LocalPhi(mode, pq, pv0, peps) ==
    IF mode = "stored" THEN Lgm_DFI_RBF_Phi(pq, pv0, peps) ELSE Indeterminate

\* B after the first j iterations of the loop at lines 411-417.
RECURSIVE EvalLoop(_, _, _, _)
EvalLoop(pq, prbf, mode, j) ==
    IF j <= 0
        THEN ZeroVec
        ELSE LET Phi == LocalPhi(mode, pq, prbf.v[j-1], prbf.eps)
                 W   == Lgm_MatTimesVec(Phi, prbf.v[j-1])
             IN  VecAdd(EvalLoop(pq, prbf, mode, j-1), W)

\* Lgm_DFI_RBF_Eval with the weights solved for anew on every call.
EvalResolving ==
    /\ pc = "ready"
    /\ \E pq \in Queries :
          /\ q' = pq
          /\ Bout' = EvalLoop(pq, rbf, "stored", rbf.n)
    /\ lastEval' = "stored"
    /\ rbf' = [rbf EXCEPT !.c = [k \in DOMAIN rbf.c |-> 0]]
    /\ UNCHANGED <<v, B, n, eps, pc, live, d, a, status, ret,
                   phiV, phiV0, phiEps, phiOut, given, asmVars, ephVars>>

Lgm_DFI_RBF_Eval ==
    /\ pc = "ready"
    /\ \E pq \in Queries :
          /\ q' = pq
          /\ IF rbf.n <= 0
                THEN /\ Bout' = ZeroVec
                     /\ lastEval' = "noloop"
                     /\ pc' = pc
                ELSE \E mode \in EvalModes :
                        /\ lastEval' = mode
                        /\ IF mode = "trap"
                              THEN /\ Bout' = ZeroVec
                                   /\ pc' = "crashed_eval"
                              ELSE /\ Bout' = EvalLoop(pq, rbf, mode, rbf.n)
                                   /\ pc' = pc
    /\ UNCHANGED <<v, B, n, eps, live, rbf, d, a, status, ret,
                   phiV, phiV0, phiEps, phiOut, given, asmVars, ephVars>>

----------------------------------------------------------------------------
(* The caller reuses its arrays after Lgm_DFI_RBF_Init has returned: every *)
(* position and every field vector is overwritten.                         *)

Overwritten(arr, val) == [i \in DOMAIN arr |-> val]

CallerOverwrites ==
    /\ pc = "ready"
    /\ n >= 1
    /\ v = given.v
    /\ B = given.B
    /\ v' = Overwritten(v, Vec(7, 7, 7))
    /\ B' = Overwritten(B, Vec(9, 9, 9))
    /\ UNCHANGED <<n, eps, pc, live, rbf, d, a, status, ret, q, Bout, lastEval,
                   phiV, phiV0, phiEps, phiOut, given, asmVars, ephVars>>

----------------------------------------------------------------------------
(* A direct call of the kernel on a caller-allocated 3x3 matrix.           *)

CallPhi ==
    /\ pc = "kernel"
    /\ phiOut' = Lgm_DFI_RBF_Phi(phiV, phiV0, phiEps)
    /\ pc' = "kernel_done"
    /\ UNCHANGED <<v, B, n, eps, live, rbf, d, a, status, ret, q, Bout, lastEval,
                   phiV, phiV0, phiEps, given, asmVars, ephVars>>

----------------------------------------------------------------------------
(* Specifications.                                                         *)

Idle ==
    /\ live = {}
    /\ rbf = NoRbf
    /\ d = <<>>
    /\ a = <<>>
    /\ status = "none"
    /\ ret = "none"
    /\ q = Vec(0, 0, 0)
    /\ Bout = ZeroVec
    /\ lastEval = "none"
    /\ given = [v |-> <<>>, B |-> <<>>]

\* No assembly is running.
AsmIdle ==
    /\ asmPhi = ZeroMat
    /\ asmA = <<>>
    /\ asmTask = <<>>
    /\ asmRaced = FALSE
    /\ asmCalls = <<>>
    /\ asmWrites = <<>>

\* Nothing of MagEphemWrite.c has run.
EphIdle ==
    /\ ephM = <<>>
    /\ ephHeader = <<>>
    /\ ephLabels = <<>>
    /\ ephRow = <<>>

\* A caller holding a training set, before Lgm_DFI_RBF_Init.
Init ==
    /\ \E in \in Inputs :
          /\ n = in.n
          /\ v = in.v
          /\ B = in.B
          /\ eps = in.eps
    /\ pc = "start"
    /\ Idle
    /\ AsmIdle
    /\ EphIdle
    /\ phiV = Vec(0, 0, 0)
    /\ phiV0 = Vec(0, 0, 0)
    /\ phiEps = 0
    /\ phiOut = ZeroMat

Next ==
    \/ Lgm_DFI_RBF_Init
    \/ Lgm_DFI_RBF_Eval
    \/ Lgm_DFI_RBF_Free
    \/ CallerOverwrites

Spec == Init /\ [][Next]_vars

\* A caller of the kernel alone, holding two points, a shape parameter and
\* a zeroed 3x3 matrix.
InitPhi ==
    /\ n = 0
    /\ v = <<>>
    /\ B = <<>>
    /\ eps = 0
    /\ pc = "kernel"
    /\ Idle
    /\ AsmIdle
    /\ EphIdle
    /\ phiV \in KernelPoints
    /\ phiV0 \in KernelPoints
    /\ phiEps \in KernelEps
    /\ phiOut = ZeroMat

NextPhi == CallPhi

SpecPhi == InitPhi /\ [][NextPhi]_vars

----------------------------------------------------------------------------
(* The fill loop of A (lines 316-334), one iteration per ordered pair       *)
(* (i,j), each made of the kernel call of line 323 into the scratch Phi of *)
(* line 285 and the copy of lines 325-329 into a.  The iterations are run   *)
(* in any order and interleaving; the loop of the source is the behaviour  *)
(* that takes them one after the other in row-major order.                 *)

\* Training sets of one or two samples with a positive shape parameter;
\* the loop does not read the field vectors.
AsmInputs ==
    {in \in Inputs : /\ in.n \in 1..2
                     /\ in.eps > 0
                     /\ in.B = [i \in 0..in.n-1 |-> FieldByIndex(i)]}

\* CopyBlock with the start column taken from the row index.
CopyBlockColumnFromRow(A, P, i, j) ==
    [r \in DOMAIN A |-> [s \in DOMAIN A[r] |->
        IF r \div 3 = i /\ s \div 3 = i THEN P[r % 3][s % 3] ELSE A[r][s]]]

\* a[ii+p][jj+q] = Phi[p][q]  for p, q in 0..2, with ii = 3*i and jj = 3*j
CopyBlock(A, P, i, j) ==
    [r \in DOMAIN A |-> [s \in DOMAIN A[r] |->
        IF r \div 3 = i /\ s \div 3 = j THEN P[r % 3][s % 3] ELSE A[r][s]]]

\* AsmPairs with the inner loop started at j = i.
AsmPairsUpper(pn) == {pr \in (0..pn-1) \X (0..pn-1) : pr[2] >= pr[1]}

\* for ( i=0; i<n; i++ ) for ( j=0; j<n; j++ ): the pairs the loop visits
AsmPairs(pn) == (0..pn-1) \X (0..pn-1)

\* The entries of a 3pn x 3pn matrix that the copy of iteration (i,j)
\* stores to: 1 where CopyBlock writes, 0 elsewhere.
Stores(pn, i, j) ==
    CopyBlock([r \in 0..3*pn-1 |-> [s \in 0..3*pn-1 |-> 0]],
              [p \in 0..2 |-> [qq \in 0..2 |-> 1]], i, j)

\* Line 323 of iteration (i,j): the kernel of v[i] and v[j] goes to Phi.
AsmCallPhi ==
    /\ pc = "assembling"
    /\ \E pr \in DOMAIN asmTask :
          /\ asmTask[pr] = "todo"
          /\ asmPhi' = Lgm_DFI_RBF_Phi(v[pr[1]], v[pr[2]], eps)
          /\ asmTask' = [asmTask EXCEPT ![pr] = "called"]
          /\ asmRaced' = (asmRaced \/ \E o \in DOMAIN asmTask : asmTask[o] = "called")
          /\ asmCalls' = [asmCalls EXCEPT ![pr] = @ + 1]
    /\ UNCHANGED <<v, B, n, eps, pc, live, rbf, d, a, status, ret, q, Bout,
                   lastEval, phiV, phiV0, phiEps, phiOut, given, asmA, asmWrites,
                   ephVars>>

\* Lines 325-329 of iteration (i,j): Phi goes to block (i,j) of a.
AsmCopyBlock ==
    /\ pc = "assembling"
    /\ \E pr \in DOMAIN asmTask :
          /\ asmTask[pr] = "called"
          /\ asmA' = CopyBlock(asmA, asmPhi, pr[1], pr[2])
          /\ asmTask' = [asmTask EXCEPT ![pr] = "done"]
          /\ asmWrites' = [r \in DOMAIN asmWrites |-> [s \in DOMAIN asmWrites[r] |->
                              asmWrites[r][s] + Stores(n, pr[1], pr[2])[r][s]]]
    /\ UNCHANGED <<v, B, n, eps, pc, live, rbf, d, a, status, ret, q, Bout,
                   lastEval, phiV, phiV0, phiEps, phiOut, given, asmPhi, asmRaced,
                   asmCalls, ephVars>>

\* Init at line 316: a and Phi are allocated and zeroed, no iteration has
\* started.
InitAsm ==
    /\ \E in \in AsmInputs :
          /\ n = in.n
          /\ v = in.v
          /\ B = in.B
          /\ eps = in.eps
    /\ pc = "assembling"
    /\ Idle
    /\ EphIdle
    /\ asmPhi = ZeroMat
    /\ asmA = [r \in 0..3*n-1 |-> [s \in 0..3*n-1 |-> Zero]]
    /\ asmTask = [pr \in AsmPairs(n) |-> "todo"]
    /\ asmRaced = FALSE
    /\ asmCalls = [pr \in (0..n-1) \X (0..n-1) |-> 0]
    /\ asmWrites = [r \in 0..3*n-1 |-> [s \in 0..3*n-1 |-> 0]]
    /\ phiV = Vec(0, 0, 0)
    /\ phiV0 = Vec(0, 0, 0)
    /\ phiEps = 0
    /\ phiOut = ZeroMat

NextAsm == AsmCallPhi \/ AsmCopyBlock

SpecAsm == InitAsm /\ [][NextAsm]_vars

----------------------------------------------------------------------------
(* MagEphemWrite.c: WriteMagEphemHeader and WriteMagEphemData.  A line of  *)
(* the file is the sequence of its whitespace-separated columns.  A column *)
(* of the data row is a record: the variable and the element of it that    *)
(* the fprintf prints, and its text ("number" for a value printed with a   *)
(* numeric conversion, whose digits are not modelled).                     *)

\* m->FieldLineType: the six constants the switch names, and any other int.
FieldLineTypes ==
    {"LGM_OPEN_IMF", "LGM_CLOSED", "LGM_OPEN_N_LOBE", "LGM_OPEN_S_LOBE",
     "LGM_INSIDE_EARTH", "LGM_TARGET_HEIGHT_UNREACHABLE", "other"}

IntModels == {"IGRF", "CDIP", "EDIP"}

ExtModels == {"IGRF", "CDIP", "EDIP", "igrf", "T89", "OP77"}

EphInputs ==
    {[nAlpha |-> na, FieldLineType |-> t, IntModel |-> im, ExtModel |-> em] :
        na \in 0..MaxAlpha, t \in FieldLineTypes, im \in IntModels, em \in ExtModels}

\* The JSON header: the variables that get a START_COLUMN, with their
\* DIMENSION (1 where none is printed), in the order of the source.
HeaderDecls(nAlpha) ==
    << <<"DateTime", 1>>, <<"Date", 1>>, <<"DOY", 1>>, <<"UTC", 1>>,
       <<"JulianDate", 1>>, <<"GpsTime", 1>>,
       <<"Rgeo", 3>>, <<"Rgeod", 3>>, <<"Rgsm", 3>>, <<"Rsm", 3>>,
       <<"Rgei", 3>>, <<"Rgse", 3>>,
       <<"IntModel", 1>>, <<"ExtModel", 1>>, <<"Kp", 1>>, <<"Dst", 1>>,
       <<"Bsc_gsm", 4>>, <<"FieldLineType", 1>>,
       <<"Pfn_geo", 3>>, <<"Pfn_gsm", 3>>, <<"Pfn_geod", 2>>,
       <<"Pfn_geod_height", 1>>, <<"Bfn_geo", 4>>, <<"Bfn_gsm", 4>>,
       <<"Loss_Cone_Alpha_n", 1>>,
       <<"Pfs_geo", 3>>, <<"Pfs_gsm", 3>>, <<"Pfs_geod", 2>>,
       <<"Pfs_geod_height", 1>>, <<"Bfs_geo", 4>>, <<"Bfs_gsm", 4>>,
       <<"Loss_Cone_Alpha_s", 1>>,
       <<"Pmin_gsm", 3>>, <<"Bmin_gsm", 4>>,
       <<"M_used", 1>>, <<"M_ref", 1>>, <<"M_igrf", 1>> >>
    \o (IF nAlpha > 0
           THEN << <<"L*", nAlpha>>, <<"L", nAlpha>>, <<"Bm", nAlpha>>,
                   <<"I", nAlpha>> >>
           ELSE << >>)

\* nCol after the first k declarations (nCol++ and nCol += DIMENSION).
RECURSIVE nCol(_, _)
nCol(decls, k) == IF k <= 0 THEN 0 ELSE nCol(decls, k - 1) + decls[k][2]

\* What the header prints for each variable: START_COLUMN is nCol as it
\* stands when the variable is reached.
JsonHeader(nAlpha) ==
    LET decls == HeaderDecls(nAlpha)
    IN  [k \in 1..Len(decls) |->
            [name |-> decls[k][1], DIMENSION |-> decls[k][2],
             START_COLUMN |-> nCol(decls, k - 1)]]

\* One label of the column header line: its text and, for the labels of
\* the pitch angle loops, the index printed after it.
Lab(text) == <<text, 0>>

\* The column header line of lines 574-685 (the leading "#" left out).
ColumnLabels(nAlpha) ==
    << Lab("Time"), Lab("Date"), Lab("DOY"), Lab("UTC"), Lab("Julian Date"),
       Lab("GPS Time"),
       Lab("Xgeo"), Lab("Ygeo"), Lab("Zgeo"),
       Lab("GeodLat"), Lab("GeodLon"), Lab("GeodHeight"),
       Lab("Xgsm"), Lab("Ygsm"), Lab("Zgsm"),
       Lab("Xsm"), Lab("Ysm"), Lab("Zsm"),
       Lab("Xgei"), Lab("Ygei"), Lab("Zgei"),
       Lab("Xgse"), Lab("Ygse"), Lab("Zgse"),
       Lab("Int Model"), Lab("Ext Model"), Lab("Kp"), Lab("Dst"),
       Lab("Bsc_x"), Lab("Bsc_y"), Lab("Bsc_z"), Lab("Bsc"),
       Lab("Field Line Type"),
       Lab("Xgsm"), Lab("Ygsm"), Lab("Zgsm"),
       Lab("Xgeo"), Lab("Ygeo"), Lab("Zgeo"),
       Lab("GeodLat"), Lab("GeodLon"), Lab("GeodHeight"),
       Lab("Bfn_geo_x"), Lab("Bfn_geo_y"), Lab("Bfn_geo_z"), Lab("Bfn_geo"),
       Lab("Bfn_x"), Lab("Bfn_y"), Lab("Bfn_z"), Lab("Bfn"),
       Lab("Alpha_LC_N"),
       Lab("Xgsm"), Lab("Ygsm"), Lab("Zgsm"),
       Lab("Xgeo"), Lab("Ygeo"), Lab("Zgeo"),
       Lab("GeodLat"), Lab("GeodLon"), Lab("GeodHeight"),
       Lab("Bfs_geo_x"), Lab("Bfs_geo_y"), Lab("Bfs_geo_z"), Lab("Bfs_geo"),
       Lab("Bfs_x"), Lab("Bfs_y"), Lab("Bfs_z"), Lab("Bfs"),
       Lab("Alpha_LC_N"),
       Lab("Xgsm"), Lab("Ygsm"), Lab("Zgsm"),
       Lab("Bmin_x"), Lab("Bmin_y"), Lab("Bmin_z"), Lab("Bmin"),
       Lab("M_used"), Lab("M_ref"), Lab("M_igrf") >>
    \o [i \in 1..nAlpha |-> <<"L*", i - 1>>]
    \o [i \in 1..nAlpha |-> <<"L", i - 1>>]
    \o [i \in 1..nAlpha |-> <<"Bm", i - 1>>]
    \o [i \in 1..nAlpha |-> <<"I", i - 1>>]

\* dim columns holding the elements 0..dim-1 of a variable, each printed
\* with a numeric conversion.
Num(var, dim) == [k \in 1..dim |-> [var |-> var, el |-> k - 1, text |-> "number"]]

\* A string printed with %s: one column for each of its words.
Str(var, words) ==
    [k \in 1..Len(words) |-> [var |-> var, el |-> 0, text |-> words[k]]]

\* k times  fprintf( fp, " %12g", LGM_FILL_VALUE )
Fills(k) == [i \in 1..k |-> [var |-> "none", el |-> 0, text |-> "LGM_FILL_VALUE"]]

\* The internal-model column with the test made on "IGRF" alone.
IntModelColumnIgrfOnly(IntModel, ExtModel) ==
    IF ExtModel = "IGRF" THEN "N/A" ELSE IntModel

\* Lines 858-863.
IntModelColumn(IntModel, ExtModel) ==
    IF ExtModel = "IGRF" \/ ExtModel = "CDIP" \/ ExtModel = "EDIP"
        THEN "N/A"
        ELSE IntModel

\* The switch of lines 874-896: the words of the string it prints.
FieldLineTypeString(t) ==
    CASE t = "LGM_OPEN_IMF"    -> <<"LGM_OPEN_IMF">>
      [] t = "LGM_CLOSED"      -> <<"LGM_CLOSED">>
      [] t = "LGM_OPEN_N_LOBE" -> <<"LGM_OPEN_N_LOBE">>
      [] t = "LGM_OPEN_S_LOBE" -> <<"LGM_OPEN_S_LOBE">>
      [] t = "LGM_INSIDE_EARTH" -> <<"LGM_INSIDE_EARTH">>
      [] t = "LGM_TARGET_HEIGHT_UNREACHABLE" -> <<"LGM_TARGET_HEIGHT_UNREACHABLE">>
      [] OTHER                 -> <<"UNKNOWN", "FIELD", "TYPE">>

\* Lines 898-951: the northern footpoint.
NorthFootpoint(t) ==
    IF t = "LGM_CLOSED" \/ t = "LGM_OPEN_N_LOBE"
        THEN Num("Pfn_gsm", 3) \o Num("Pfn_geo", 3) \o Num("Pfn_geod", 2)
             \o Num("Pfn_geod_height", 1) \o Num("Bfn_geo", 4)
             \o Num("Bfn_gsm", 4) \o Num("Loss_Cone_Alpha_n", 1)
        ELSE Fills(14)

\* Lines 954-1007: the southern footpoint.
SouthFootpoint(t) ==
    IF t = "LGM_CLOSED" \/ t = "LGM_OPEN_S_LOBE"
        THEN Num("Pfs_gsm", 3) \o Num("Pfs_geo", 3) \o Num("Pfs_geod", 2)
             \o Num("Pfs_geod_height", 1) \o Num("Bfs_geo", 4)
             \o Num("Bfs_gsm", 4) \o Num("Loss_Cone_Alpha_s", 1)
        ELSE Fills(14)

\* Lines 1011-1030: the minimum-|B| point.
MinimumB(t) ==
    IF t = "LGM_CLOSED"
        THEN Num("Pmin_gsm", 3) \o Num("Bmin_gsm", 4)
        ELSE Fills(7)

\* The data row of lines 817-1056.
DataRow(m, IntModel, ExtModel) ==
    Num("DateTime", 1) \o Num("Date", 1) \o Num("DOY", 1) \o Num("UTC", 1)
    \o Num("JulianDate", 1) \o Num("GpsTime", 1)
    \o Num("Rgeo", 3) \o Num("Rgeod", 3) \o Num("Rgsm", 3) \o Num("Rsm", 3)
    \o Num("Rgei", 3) \o Num("Rgse", 3)
    \o Str("IntModel", <<IntModelColumn(IntModel, ExtModel)>>)
    \o Str("ExtModel", <<ExtModel>>)
    \o Num("Kp", 1) \o Num("Dst", 1)
    \o Num("Bsc_gsm", 4)
    \o Str("FieldLineType", FieldLineTypeString(m.FieldLineType))
    \o NorthFootpoint(m.FieldLineType)
    \o SouthFootpoint(m.FieldLineType)
    \o MinimumB(m.FieldLineType)
    \o Num("M_used", 1) \o Num("M_ref", 1) \o Num("M_igrf", 1)
    \o Num("L*", m.nAlpha) \o Num("L", m.nAlpha)
    \o Num("Bm", m.nAlpha) \o Num("I", m.nAlpha)

WriteMagEphemHeader ==
    /\ pc = "ephem"
    /\ ephHeader' = JsonHeader(ephM.nAlpha)
    /\ ephLabels' = ColumnLabels(ephM.nAlpha)
    /\ pc' = "ephem_header"
    /\ UNCHANGED <<v, B, n, eps, live, rbf, d, a, status, ret, q, Bout, lastEval,
                   phiV, phiV0, phiEps, phiOut, given, asmVars, ephM, ephRow>>

WriteMagEphemData ==
    /\ pc = "ephem_header"
    /\ ephRow' = DataRow(ephM, ephM.IntModel, ephM.ExtModel)
    /\ pc' = "ephem_row"
    /\ UNCHANGED <<v, B, n, eps, live, rbf, d, a, status, ret, q, Bout, lastEval,
                   phiV, phiV0, phiEps, phiOut, given, asmVars, ephM, ephHeader,
                   ephLabels>>

\* A caller about to write a file: the ephemeris structure m and the model
\* names are set, nothing is written.
InitEphem ==
    /\ n = 0
    /\ v = <<>>
    /\ B = <<>>
    /\ eps = 0
    /\ pc = "ephem"
    /\ Idle
    /\ AsmIdle
    /\ ephM \in EphInputs
    /\ ephHeader = <<>>
    /\ ephLabels = <<>>
    /\ ephRow = <<>>
    /\ phiV = Vec(0, 0, 0)
    /\ phiV0 = Vec(0, 0, 0)
    /\ phiEps = 0
    /\ phiOut = ZeroMat

NextEphem == WriteMagEphemHeader \/ WriteMagEphemData

SpecEphem == InitEphem /\ [][NextEphem]_vars

----------------------------------------------------------------------------
(* Claims.                                                                 *)

Real(k) == Term(k, 0)

RealVec(V) == Vec(Real(V.x), Real(V.y), Real(V.z))

\* The training set meets the construction's preconditions.
ValidParameters == n >= 1 /\ eps > 0

\* Init has returned to its caller.
InitReturned == pc \in {"ready", "freed"}

\* An Eval call on a context built from a valid training set has returned.
EvalReturned ==
    /\ ValidParameters
    /\ pc = "ready"
    /\ lastEval \in {"stored", "indeterminate"}

\* The weight 3-vector of sample j: (c[3j], c[3j+1], c[3j+2]).
Weight(prbf, j) == Vec(prbf.c[3*j], prbf.c[3*j + 1], prbf.c[3*j + 2])

\* SUM over j < m of Phi(pq, positions[j], eps) times the weight of sample j.
RECURSIVE WeightedKernelSum(_, _, _)
WeightedKernelSum(pq, prbf, m) ==
    IF m <= 0
        THEN ZeroVec
        ELSE VecAdd(WeightedKernelSum(pq, prbf, m - 1),
                    Lgm_MatTimesVec(Lgm_DFI_RBF_Phi(pq, prbf.v[m-1], prbf.eps),
                                    Weight(prbf, m - 1)))

\* C1: every Eval call that returns yields the sum over the N samples of the
\* kernel block Phi(q, positions[j], eps) times the solved weight of sample j.
C1_EvalIsWeightedKernelSum ==
    EvalReturned => Bout = WeightedKernelSum(q, rbf, rbf.n)

Distinct(pv, pn) == \A i, j \in 0..pn-1 : i # j => pv[i] # pv[j]

\* C2: for a training set with pairwise distinct positions, Eval at the
\* position of sample k returns the field vector of sample k.
C2_InterpolationExact ==
    (EvalReturned /\ Distinct(given.v, n))
        => \A k \in 0..n-1 : q = given.v[k] => Bout = RealVec(given.B[k])

\* C3: with a single sample, Eval at the sample's position returns the
\* sample's vector.
C3_SingleSampleExact ==
    (EvalReturned /\ n = 1 /\ q = given.v[0])
        => (rbf.n3 = 3 /\ Bout = RealVec(given.B[0]))

\* C4: when the Cholesky factorization fails, Init does not hand its caller
\* a context.
C4_CholeskyFailureSurfaced ==
    (ValidParameters /\ InitReturned /\ status = "GSL_EDOM") => ret # "rbf"

\* C5: a training set with two identical positions is rejected: Init returns
\* no context for it.
C5_DuplicatePositionsRejected ==
    (ValidParameters /\ InitReturned /\ ~Distinct(given.v, n)) => ret # "rbf"

\* C6: with N < 1 or eps <= 0, Init fails before it allocates, assembles or
\* solves anything.
C6_ParametersValidated ==
    (InitReturned /\ (n < 1 \/ eps <= 0))
        => (ret # "rbf" /\ live = {} /\ status = "none")

\* C7: after a failed solve, none of the context, its position copy and its
\* weight vector is still allocated when Init has returned.
C7_NothingPersistentOnFailure ==
    (ValidParameters /\ pc = "ready" /\ status = "GSL_EDOM")
        => live \cap Persistent = {}

\* C8: when the context's storage cannot be obtained, Init reports a failure
\* and does not go on to use the storage it did not get.
C8_AllocationFailureReported ==
    ValidParameters => pc # "crashed_alloc"

\* The kernel as the specification writes it, eps = peps/2.
KernelEntry(pv, pv0, peps, i, j) ==
    LET x   == pv.x - pv0.x
        y   == pv.y - pv0.y
        z   == pv.z - pv0.z
        psi == Term(1, peps * (x*x + y*y + z*z))
        f   == 2 * peps
        g   == peps * peps
    IN  CASE {i, j} = {0}    -> Scale(f - g*(y*y + z*z), psi)
          [] {i, j} = {1}    -> Scale(f - g*(x*x + z*z), psi)
          [] {i, j} = {2}    -> Scale(f - g*(x*x + y*y), psi)
          [] {i, j} = {0, 1} -> Scale(g*x*y, psi)
          [] {i, j} = {0, 2} -> Scale(g*x*z, psi)
          [] OTHER           -> Scale(g*y*z, psi)

\* C9: Lgm_DFI_RBF_Phi writes the kernel of the specification into every one
\* of the nine entries, for every pair of points and every eps.
C9_PhiIsSpecKernel ==
    pc = "kernel_done"
        => \A i, j \in 0..2 : phiOut[i][j] = KernelEntry(phiV, phiV0, phiEps, i, j)

\* A call at the displacement (2, 1, -1) with eps = 0.5: x, y, z are all
\* non-zero and x*x differs from y*y and z*z, so the three diagonal formulas
\* and the three off-diagonal ones all give different values.
C9_Witness ==
    /\ pc = "kernel_done"
    /\ phiEps = 1
    /\ phiV.x - phiV0.x = 2
    /\ phiV.y - phiV0.y = 1
    /\ phiV.z - phiV0.z = -1
    /\ phiOut[1][2] = Term(-1, 6)
    /\ phiOut[0][0] = Zero

\* C10: for eps > 0 the matrix Lgm_DFI_RBF_Phi writes is symmetric, and it is
\* the matrix the routine yields with v and v0 exchanged.
C10_PhiSymmetric ==
    (pc = "kernel_done" /\ phiEps > 0)
        => /\ \A i, j \in 0..2 : phiOut[i][j] = phiOut[j][i]
           /\ phiOut = Lgm_DFI_RBF_Phi(phiV0, phiV, phiEps)

\* A call with eps > 0 at a displacement whose products xy, xz, yz are all
\* non-zero, xz negative.
C10_Witness ==
    /\ pc = "kernel_done"
    /\ phiEps = 2
    /\ phiV = Vec(-1, 0, 1)
    /\ phiV0 = Vec(0, 1, 0)
    /\ phiOut[2][0] = Term(-4, 6)
    /\ phiOut[0][1] = Term(4, 6)

----------------------------------------------------------------------------
(* Assembly of the linear system (lines 304-334).                          *)

\* The assembly loops have run: Init went on to the solver.
Assembled == pc \in {"ready", "freed", "crashed_solve", "crashed_eval"}

C12_RightHandSide ==
    Assembled =>
        /\ DOMAIN d = 0..3*n-1
        /\ \A i \in 0..n-1 :
              /\ d[3*i]   = given.B[i].x
              /\ d[3*i+1] = given.B[i].y
              /\ d[3*i+2] = given.B[i].z

\* Two samples whose field vectors differ from each other and whose
\* components differ from one another.
C12_Witness ==
    /\ Assembled
    /\ n = 2
    /\ given.B[0] # given.B[1]
    /\ given.B[1].y # given.B[1].z
    /\ d[4] = given.B[1].y
    /\ d[5] = given.B[1].z

----------------------------------------------------------------------------
(* The solve (lines 349-352).                                              *)

\* SUM over s < m of row[s] * c[s].
RECURSIVE RowTimes(_, _, _)
RowTimes(row, c, m) ==
    IF m <= 0 THEN Zero ELSE Add(RowTimes(row, c, m - 1), Scale(c[m-1], row[m-1]))

\* C13: the weight vector the context holds solves the assembled system:
\* A c = d, with A the matrix of the fill loop, d the right-hand side and c
\* of length 3N.
C13_WeightsSolveSystem ==
    (ValidParameters /\ InitReturned /\ status = "GSL_SUCCESS")
        => /\ DOMAIN rbf.c = 0..3*n-1
           /\ \A r \in 0..3*n-1 : RowTimes(a[r], rbf.c, 3*n) = Real(d[r])

----------------------------------------------------------------------------
(* The context and its caller (lines 291-297, 379-383, 404-421).           *)

\* The context as Init built it, whatever the caller's arrays hold now.
Snapshot == [rbf EXCEPT !.v = given.v, !.n = n, !.eps = eps]

C17_FreeReleasesContext ==
    pc = "freed" => ("rbf.v" \notin live /\ "rbf.c" \notin live)

\* Free has run on a context built from a valid training set.
C17_Witness ==
    /\ pc = "freed"
    /\ ValidParameters
    /\ ret = "rbf"
    /\ live \cap {"rbf.v", "rbf.c"} = {}

----------------------------------------------------------------------------
(* The iterations of the fill loop, one beside the other.                  *)

\* Block (i,j) of a 3n x 3n matrix.
Block(A, i, j) == [p \in 0..2 |-> [qq \in 0..2 |-> A[3*i+p][3*j+qq]]]

\* Every iteration has made its copy.
AllDone == \A pr \in DOMAIN asmTask : asmTask[pr] = "done"

----------------------------------------------------------------------------
(* The kernel as a function of its arguments (lines 223-254).              *)

\* pv - pv0
Displacement(pv, pv0) == Vec(pv.x - pv0.x, pv.y - pv0.y, pv.z - pv0.z)

\* C21: a kernel call writes the nine entries of its output matrix and
\* nothing else: the two points, the shape parameter and every other part
\* of the program's state are as before, and the matrix is a function of
\* the displacement v - v0 and eps alone.
C21_PhiIsPure ==
    [][CallPhi =>
          /\ UNCHANGED <<phiV, phiV0, phiEps>>
          /\ UNCHANGED <<v, B, n, eps, live, rbf, d, a, status, ret, q, Bout,
                         lastEval, given, asmVars, ephVars>>
          /\ DOMAIN phiOut' = 0..2
          /\ \A i \in 0..2 : DOMAIN phiOut'[i] = 0..2
          /\ phiOut' = Lgm_DFI_RBF_Phi(Displacement(phiV, phiV0),
                                       Vec(0, 0, 0), phiEps)]_vars

\* A kernel call has returned for two different points, neither of them the
\* origin, with an entry off the diagonal that is not zero.
C21_Witness ==
    /\ pc = "kernel_done"
    /\ phiEps > 0
    /\ phiV # Vec(0, 0, 0)
    /\ phiV0 # Vec(0, 0, 0)
    /\ phiV # phiV0
    /\ phiOut[0][1] # Zero
    /\ phiOut = Lgm_DFI_RBF_Phi(Displacement(phiV, phiV0), Vec(0, 0, 0), phiEps)

----------------------------------------------------------------------------
(* The assembled matrix (lines 316-334) and the blocks left after Free.    *)

\* C22: the assembled matrix is symmetric, A[r][s] = A[s][r] for all r, s
\* in 0..3N-1, whatever the samples and the shape parameter.
C22_AssembledSymmetric ==
    Assembled => \A r, s \in 0..3*n-1 : a[r][s] = a[s][r]

\* Two samples whose displacement has two non-zero components: an entry
\* outside the diagonal blocks, off the diagonal of its block, is not zero
\* and equals its mirror image.
C22_Witness ==
    /\ Assembled
    /\ n = 2
    /\ eps > 0
    /\ a[0][4] # Zero
    /\ a[0][4] = a[4][0]
    /\ a[0][4] = Lgm_DFI_RBF_Phi(given.v[0], given.v[1], eps)[0][1]

\* C28: after Init, any number of Eval calls and one Free, every block Init
\* allocated is released: the scratch d, a and Phi, the context structure,
\* its position array and its weight vector.
C28_ResourceBalance ==
    (ValidParameters /\ pc = "freed") => live = {}

\* C29: every diagonal 3x3 block of the assembled matrix is 4*eps times the
\* identity, wherever the sample lies.
C29_DiagonalBlocks ==
    Assembled =>
        \A i \in 0..n-1 : \A p, qq \in 0..2 :
            a[3*i+p][3*i+qq] = IF p = qq THEN Real(2 * eps) ELSE Zero

\* Two samples at different places, neither at the origin, and a positive
\* shape parameter: both diagonal blocks hold 4*eps on the diagonal.
C29_Witness ==
    /\ Assembled
    /\ n = 2
    /\ eps > 0
    /\ given.v[0] # given.v[1]
    /\ given.v[0] # Vec(0, 0, 0)
    /\ given.v[1] # Vec(0, 0, 0)
    /\ a[3][3] = Real(2 * eps)
    /\ a[3][3] # Zero
    /\ a[3][4] = Zero

----------------------------------------------------------------------------
(* The work of the fill loop.                                              *)

\* C23: the fill loop calls the kernel exactly once for each of the N*N
\* ordered pairs (i,j), the diagonal and both (i,j) and (j,i) included, and
\* stores to every entry of A exactly once before Init goes on to the solve.
C23_FullPairwiseAssembly ==
    pc = "assembling" =>
        /\ \A pr \in (0..n-1) \X (0..n-1) : asmCalls[pr] <= 1
        /\ \A r, s \in 0..3*n-1 : asmWrites[r][s] <= 1
        /\ \A pr \in DOMAIN asmTask :
              asmTask[pr] = "todo" <=> asmCalls[pr] = 0
        /\ AllDone =>
              /\ \A pr \in (0..n-1) \X (0..n-1) : asmCalls[pr] = 1
              /\ \A r, s \in 0..3*n-1 : asmWrites[r][s] = 1

\* The loop over two samples has finished: four kernel calls, the pairs
\* (0,1) and (1,0) among them, and one store to each of the 36 entries.
C23_Witness ==
    /\ pc = "assembling"
    /\ n = 2
    /\ AllDone
    /\ asmCalls[<<0, 1>>] = 1
    /\ asmCalls[<<1, 0>>] = 1
    /\ asmCalls[<<1, 1>>] = 1
    /\ asmWrites[5][0] = 1
    /\ asmWrites[0][5] = 1


----------------------------------------------------------------------------
(* The ephemeris file.                                                     *)

RowWritten == pc = "ephem_row"

\* The header's declaration of a variable.
Declared(name) == CHOOSE k \in DOMAIN ephHeader : ephHeader[k].name = name

\* A column the row does not have.
NoColumn == [var |-> "none", el |-> 0, text |-> "missing"]

\* The columns of the data row at the place the header declares for a
\* variable: DIMENSION columns from the zero-based START_COLUMN on.
ColumnsOf(name) ==
    LET h == ephHeader[Declared(name)]
    IN  [k \in 1..h.DIMENSION |->
            IF h.START_COLUMN + k <= Len(ephRow)
                THEN ephRow[h.START_COLUMN + k]
                ELSE NoColumn]

\* C24: every data row has as many whitespace-separated columns as the
\* header has column labels, 79 + 4*nAlpha, whatever m->FieldLineType is.
C24_RowMatchesLabels ==
    RowWritten =>
        /\ Len(ephLabels) = 79 + 4 * ephM.nAlpha
        /\ Len(ephRow) = Len(ephLabels)

\* C25: every variable of the JSON header has, at its START_COLUMN and
\* over its DIMENSION, the columns where the data row holds that variable,
\* element by element.
C25_HeaderLocatesVariables ==
    RowWritten =>
        \A k \in DOMAIN ephHeader :
            LET cols == ColumnsOf(ephHeader[k].name)
            IN  \A e \in DOMAIN cols :
                    \/ cols[e].text = "LGM_FILL_VALUE"
                    \/ /\ cols[e].var = ephHeader[k].name
                       /\ cols[e].el = e - 1

\* The ENUM of the header's FieldLineType variable (line 230).
FieldLineTypeEnum ==
    {"LGM_CLOSED", "LGM_OPEN_N_LOBE", "LGM_OPEN_S_LOBE", "LGM_OPEN_IMF"}

\* C26: the FieldLineType column of a data row is one of the four values
\* of the header's ENUM, whatever m->FieldLineType is.
C26_FieldLineTypeInEnum ==
    RowWritten => ColumnsOf("FieldLineType")[1].text \in FieldLineTypeEnum

\* The variables of the three groups of the row that depend on the field
\* line type.
NorthGroup ==
    <<"Pfn_geo", "Pfn_gsm", "Pfn_geod", "Pfn_geod_height", "Bfn_geo",
      "Bfn_gsm", "Loss_Cone_Alpha_n">>

SouthGroup ==
    <<"Pfs_geo", "Pfs_gsm", "Pfs_geod", "Pfs_geod_height", "Bfs_geo",
      "Bfs_gsm", "Loss_Cone_Alpha_s">>

MinBGroup == <<"Pmin_gsm", "Bmin_gsm">>

\* Every field of the group holds a value computed for the group.
Computed(group) ==
    \A g \in DOMAIN group :
        \A e \in DOMAIN ColumnsOf(group[g]) :
            /\ ColumnsOf(group[g])[e].text = "number"
            /\ \E h \in DOMAIN group : ColumnsOf(group[g])[e].var = group[h]

\* Every field of the group holds LGM_FILL_VALUE.
Filled(group) ==
    \A g \in DOMAIN group :
        \A e \in DOMAIN ColumnsOf(group[g]) :
            ColumnsOf(group[g])[e].text = "LGM_FILL_VALUE"

\* C27: the northern footpoint fields are computed iff the field line is
\* CLOSED or OPEN_N_LOBE, the southern iff CLOSED or OPEN_S_LOBE, the
\* minimum-|B| fields iff CLOSED; otherwise every field of the group is
\* LGM_FILL_VALUE.
C27_GroupsComputedOrFilled ==
    RowWritten =>
        LET t == ephM.FieldLineType
        IN  /\ IF t \in {"LGM_CLOSED", "LGM_OPEN_N_LOBE"}
                  THEN Computed(NorthGroup) ELSE Filled(NorthGroup)
            /\ IF t \in {"LGM_CLOSED", "LGM_OPEN_S_LOBE"}
                  THEN Computed(SouthGroup) ELSE Filled(SouthGroup)
            /\ IF t = "LGM_CLOSED"
                  THEN Computed(MinBGroup) ELSE Filled(MinBGroup)

====
